---- MODULE Spec2Model ----
(***************************************************************************)
(* 200-day moving average analysis of mutual fund NAV data                 *)
(* (src/python/calculate_dma.py).                                          *)
(*                                                                         *)
(* A run of main() is a pipeline over pandas data frames:                  *)
(*   get_trading_days_data -> calculate_200_dma ->                         *)
(*   get_latest_nav_per_scheme -> deduplicate_schemes -> classify_funds -> *)
(*   report files.                                                         *)
(* A data frame is a sequence of rows (records); a column is a field.      *)
(* Dates are day numbers, day 0 being a Monday, so that pandas' weekday    *)
(* (Monday = 0 .. Sunday = 6) is date % 7 and a Timedelta of k days is k.  *)
(* NAVs are integers; float columns derived from them (rolling mean,       *)
(* pct_change, dma_diff_pct) are exact fractions [num, den], where den = 0 *)
(* stands for the non-finite floats: num > 0 is +inf, num < 0 is -inf and  *)
(* num = 0 is NaN.                                                         *)
(***************************************************************************)
EXTENDS Integers, Sequences, FiniteSets, TLC

VARIABLES
    db,               \* content of funds.db: scheme_code -> generator parameters
    pc,               \* position of main()
    df,               \* main's df / df_with_dma
    latest_data,      \* main's latest_data
    funds_above_dma,  \* main's funds_above_dma
    funds_below_dma,  \* main's funds_below_dma
    dma_analysis_md,  \* file dma_analysis.md
    dma_summary_json, \* file dma_summary.json
    exit_status       \* exit status of the process

vars == <<db, pc, df, latest_data, funds_above_dma, funds_below_dma,
          dma_analysis_md, dma_summary_json, exit_status>>

----------------------------------------------------------------------------
(* Program constants *)

\* rolling(window=200, min_periods=200)
Window == 200

\* pd.Timedelta(days=200)
StaleDays == 200

\* the jump threshold 0.1, as the fraction JumpNum / JumpDen
JumpNum == 1

JumpDen == 10

\* get_priority: +10 for 'direct', +5 for 'growth'
DirectPriority == 10

GrowthPriority == 5

----------------------------------------------------------------------------
(* Generic helpers: sums, fractions *)

\* the sum of f(lo) .. f(hi), split in halves
RECURSIVE SumRange(_, _, _)
SumRange(f, lo, hi) ==
    IF lo > hi THEN 0
    ELSE IF lo = hi THEN f[lo]
    ELSE LET mid == (lo + hi) \div 2
         IN SumRange(f, lo, mid) + SumRange(f, mid + 1, hi)

Abs(x) == IF x < 0 THEN 0 - x ELSE x

NaN == [num |-> 0, den |-> 0]

IsNaN(q) == q.den = 0 /\ q.num = 0

\* a float as a fraction with a non-negative denominator
Norm(q) == IF q.den < 0 THEN [num |-> 0 - q.num, den |-> 0 - q.den] ELSE q

\* float comparison p < q; any comparison with NaN is False
FracLess(p, q) ==
    LET a == Norm(p)
        b == Norm(q)
    IN /\ ~IsNaN(a)
       /\ ~IsNaN(b)
       /\ IF a.den = 0 /\ b.den = 0 THEN a.num < 0 /\ b.num > 0
          ELSE IF a.den = 0 THEN a.num < 0
          ELSE IF b.den = 0 THEN b.num > 0
          ELSE a.num * b.den < b.num * a.den

\* float comparison of an integer NAV with a float
IntFrac(n) == [num |-> n, den |-> 1]

----------------------------------------------------------------------------
(* Strings: str.lower, str.replace, 'in', str.split / ' '.join *)

UpperCase == "ABCDEFGHIJKLMNOPQRSTUVWXYZ"

LowerCase == "abcdefghijklmnopqrstuvwxyz"

CharAt(s, i) == SubSeq(s, i, i)

LowerChar(c) ==
    IF \E i \in 1..Len(UpperCase) : CharAt(UpperCase, i) = c
    THEN CharAt(LowerCase, CHOOSE i \in 1..Len(UpperCase) : CharAt(UpperCase, i) = c)
    ELSE c

\* str.lower() of s[lo..hi], character by character
RECURSIVE LowerRange(_, _, _)
LowerRange(s, lo, hi) ==
    IF lo > hi THEN ""
    ELSE IF lo = hi THEN LowerChar(CharAt(s, lo))
    ELSE LET mid == (lo + hi) \div 2
         IN LowerRange(s, lo, mid) \o LowerRange(s, mid + 1, hi)

Lower(s) == LowerRange(s, 1, Len(s))

\* sub in s
Contains(s, sub) ==
    \E i \in 1..(Len(s) - Len(sub) + 1) : SubSeq(s, i, i + Len(sub) - 1) = sub

\* s.find(sub) + 1: the position of the first occurrence, 0 if there is none
Find(s, sub) ==
    IF Contains(s, sub)
    THEN CHOOSE i \in 1..(Len(s) - Len(sub) + 1) :
            /\ SubSeq(s, i, i + Len(sub) - 1) = sub
            /\ \A j \in 1..(i - 1) : SubSeq(s, j, j + Len(sub) - 1) # sub
    ELSE 0

\* s.replace(old, new): non-overlapping occurrences, left to right
RECURSIVE Replace(_, _, _)
Replace(s, old, new) ==
    IF Find(s, old) = 0 THEN s
    ELSE SubSeq(s, 1, Find(s, old) - 1) \o new
           \o Replace(SubSeq(s, Find(s, old) + Len(old), Len(s)), old, new)

\* the position of the first character of s that is (blank = TRUE) or is
\* not (blank = FALSE) a blank, Len(s) + 1 if there is none
FirstBlank(s, blank) ==
    IF \E i \in 1..Len(s) : (CharAt(s, i) = " ") = blank
    THEN CHOOSE i \in 1..Len(s) :
            /\ (CharAt(s, i) = " ") = blank
            /\ \A j \in 1..(i - 1) : (CharAt(s, j) = " ") # blank
    ELSE Len(s) + 1

\* ' '.join(s.split()): the words of s, one blank between two of them
RECURSIVE JoinSplit(_, _)
JoinSplit(s, started) ==
    IF FirstBlank(s, FALSE) > Len(s) THEN ""
    ELSE (IF started THEN " " ELSE "")
           \o SubSeq(s, FirstBlank(s, FALSE),
                     FirstBlank(SubSeq(s, FirstBlank(s, FALSE), Len(s)), TRUE)
                       + FirstBlank(s, FALSE) - 2)
           \o JoinSplit(SubSeq(s, FirstBlank(SubSeq(s, FirstBlank(s, FALSE), Len(s)), TRUE)
                                    + FirstBlank(s, FALSE) - 1, Len(s)), TRUE)

\* normalize_name's keywords, in order
keywords ==
    << "direct plan", "regular plan", "growth option", "idcw option",
       "direct", "regular", "plan", "growth", "idcw", "payout", "reinvestment",
       "option", "fund", "funds", "scheme", "p-g", "dp-g", "p-i", "dp-i",
       "-", "(", ")", ".", ",", "...", "  " >>

\* for kw in keywords[lo..hi]: n = n.replace(kw, ' ')
\* (the string after the first half of the keywords is bound as a value)
RECURSIVE ReplaceKeywords(_, _, _)
ReplaceKeywords(n, lo, hi) ==
    IF lo > hi THEN n
    ELSE IF lo = hi THEN Replace(n, keywords[lo], " ")
    ELSE LET mid == (lo + hi) \div 2
         IN CHOOSE r \in { ReplaceKeywords(half, mid + 1, hi) :
                             half \in { ReplaceKeywords(n, lo, mid) } } : TRUE

normalize_name(name) ==
    CHOOSE r \in { JoinSplit(n, FALSE) :
                     n \in { ReplaceKeywords(lowered, 1, Len(keywords)) :
                               lowered \in { Lower(name) } } } : TRUE

\* get_priority with the two weights exchanged
get_priority_growth_first(name) ==
    LET n == Lower(name)
    IN (IF Contains(n, "direct") THEN GrowthPriority ELSE 0)
         + (IF Contains(n, "growth") THEN DirectPriority ELSE 0)

get_priority(name) ==
    LET n == Lower(name)
    IN (IF Contains(n, "direct") THEN DirectPriority ELSE 0)
         + (IF Contains(n, "growth") THEN GrowthPriority ELSE 0)

\* get_trading_days_data's exclude_keywords
exclude_keywords == << "liquid fund", "overnight fund" >>

\* str.contains('|'.join(exclude_keywords)) on the lower-cased name
MatchesExcluded(name) ==
    \E k \in 1..Len(exclude_keywords) : Contains(Lower(name), exclude_keywords[k])

----------------------------------------------------------------------------
(* The database funds.db.  Table schemes holds one name per scheme_code and *)
(* table nav one row per scheme and calendar day reported.  A scheme's      *)
(* content is generated from a few parameters:                              *)
(*   n          number of weekday observations                              *)
(*   last       trading-day index of the latest weekday observation         *)
(*   base       the NAV of an ordinary day                                  *)
(*   spike_back, spike_nav  one deviating NAV, spike_back weekday           *)
(*              observations before the latest one (0: none)                *)
(*   last_nav   the NAV of the latest weekday observation                   *)
(*   weekends   whether the scheme also reports on the Saturdays and        *)
(*              Sundays of its last WeekendWeeks weeks, the weekend after   *)
(*              its latest weekday observation included                     *)
(*   undated    whether table nav holds one more row of the scheme, with    *)
(*              the NAV of an ordinary day, whose date is NULL ("missing")  *)
(*              or a text that is no date ("malformed"); "none" otherwise   *)

\* how many observations beyond the window a series may have
MaxExtra == 2

\* how many weeks back a scheme reports on weekends
WeekendWeeks == 2

SchemeCodes == 1 .. 3

\* trading-day index of the Friday most series end at
LastFriday == 5 * 70 + 4

\* the date (day number) of the k-th trading day; day 0 is a Monday
TradingDate(k) == 7 * (k \div 5) + (k % 5)

\* pandas' Timestamp.weekday()
Weekday(date) == date % 7

\* the trading-day index of a weekday date
TradingIndex(date) == 5 * (date \div 7) + (date % 7)

\* the NAV of a scheme's i-th weekday observation, i in 1..n
NavAt(p, i) ==
    IF i = p.n THEN p.last_nav
    ELSE IF p.spike_back > 0 /\ i = p.n - p.spike_back THEN p.spike_nav
    ELSE p.base

\* the dates a scheme reports on, ascending
ReportDates(p) ==
    IF p.n = 0 THEN << >>
    ELSE LET lo == TradingDate(p.last - p.n + 1)
             hi == TradingDate(p.last) + (IF p.weekends THEN 2 ELSE 0)
             Reported(d) ==
                 \/ Weekday(d) < 5
                 \/ p.weekends /\ d > TradingDate(p.last) - 7 * WeekendWeeks
         IN SelectSeq([j \in 1..(hi - lo + 1) |-> lo + j - 1], Reported)

\* column date of a row whose date is NULL
NullDate == 0 - 1

\* column date of a row whose date is a text pandas cannot parse
MalformedDate == 0 - 2

\* the rows of table nav joined with table schemes for one scheme, by date:
\* SQLite orders NULL before every text, and a text such as 'not-a-date'
\* after every 'YYYY-MM-DD'
SchemeRows(code, p) ==
    LET dates == ReportDates(p)
        Undated(date) ==
            << [scheme_code |-> code, date |-> date, nav |-> p.base,
                scheme_name |-> p.scheme_name] >>
    IN (IF p.undated = "missing" THEN Undated(NullDate) ELSE << >>)
       \o [j \in 1..Len(dates) |->
             [scheme_code |-> code,
              date |-> dates[j],
              nav |-> IF Weekday(dates[j]) < 5
                      THEN NavAt(p, TradingIndex(dates[j]) - (p.last - p.n))
                      ELSE p.base,
              scheme_name |-> p.scheme_name]]
       \o (IF p.undated = "malformed" THEN Undated(MalformedDate) ELSE << >>)

\* the result of get_trading_days_data's query:
\* SELECT ... FROM nav JOIN schemes ... ORDER BY n.scheme_code, n.date
QueryResult(d) == SchemeRows(1, d[1]) \o SchemeRows(2, d[2]) \o SchemeRows(3, d[3])

\* a scheme without rows in table nav
NoRows(name) ==
    [scheme_name |-> name, n |-> 0, last |-> LastFriday, base |-> 20,
     spike_back |-> 0, spike_nav |-> 20, last_nav |-> 20, weekends |-> FALSE,
     undated |-> "none"]

\* scheme 1: series of every shape around the window.  pct_change is a
\* floating-point quotient, so no change is of exactly 10%: the latest NAV
\* moves by 5% or 15%, the spike by 50%.
Subjects ==
    { NoRows("ABC Direct Growth") } \cup
    { p \in [scheme_name : {"ABC Direct Growth"},
             n : (Window - 1) .. (Window + MaxExtra),
             last : {LastFriday},
             base : {20, 0 - 20, 0},
             spike_back : {0, Window - 1, Window, Window + 1},
             spike_nav : {0, 30},
             last_nav : {0 - 21, 0 - 20, 0, 1, 19, 20, 21, 23},
             weekends : BOOLEAN,
             undated : {"none"}] :
        /\ p.spike_back < p.n
        /\ p.spike_back = 0 => p.spike_nav = 0
        /\ p.base = 20 => p.last_nav \in {19, 20, 21, 23}
        /\ p.base = 0 - 20 => p.last_nav \in {0 - 21, 0 - 20} /\ p.spike_back = 0
        /\ p.base = 0 => p.last_nav \in {0, 1} /\ p.spike_back = 0 }

\* scheme 2: the same fund under another plan, ending 198 or 200 days before
\* LastFriday
Peers2 ==
    { NoRows("ABC Regular Growth") } \cup
    [scheme_name : {"ABC Regular Growth", "ABC Growth Direct Plan"},
     n : {Window},
     last : {LastFriday - 144, LastFriday - 142},
     base : {20}, spike_back : {0}, spike_nav : {0}, last_nav : {21},
     weekends : {FALSE}, undated : {"none"}]

\* scheme 3: another fund, or a fund of an excluded category, ending on the
\* Monday after LastFriday
Peers3 ==
    [scheme_name : {"XYZ Scheme (Direct)", "XYZ Liquid Fund"},
     n : {Window - 1, Window},
     last : {LastFriday + 1},
     base : {20}, spike_back : {0}, spike_nav : {0}, last_nav : {19},
     weekends : {FALSE}, undated : {"none"}]

Databases == { <<p1, p2, p3>> : p1 \in Subjects, p2 \in Peers2, p3 \in Peers3 }

----------------------------------------------------------------------------
(* get_trading_days_data *)

\* pandas' NaT, the date of a row whose date is NULL
NaT == 0 - 1

\* pd.to_datetime(df['date']) raises on a text that is no date
ToDatetimeRaises(rows) == \E k \in 1..Len(rows) : rows[k].date = MalformedDate

\* df['date'] = pd.to_datetime(df['date']): NULL becomes NaT
to_datetime(rows) ==
    [k \in 1..Len(rows) |->
        [rows[k] EXCEPT !.date = IF @ = NullDate THEN NaT ELSE @]]

\* df.sort_values(['scheme_code', 'date']): rows by scheme_code, then date,
\* NaT after every date (na_position='last')
SortKey(r) == << r.scheme_code, r.date >>

DateBefore(d1, d2) == d1 # NaT /\ (d2 = NaT \/ d1 < d2)

RowBefore(r1, r2) ==
    \/ r1.scheme_code < r2.scheme_code
    \/ r1.scheme_code = r2.scheme_code /\ DateBefore(r1.date, r2.date)

\* the first index of lo..hi whose row is not before `r`, hi + 1 if none
RECURSIVE LowerBound(_, _, _, _)
LowerBound(t, r, lo, hi) ==
    IF lo > hi THEN lo
    ELSE LET mid == (lo + hi) \div 2
         IN IF RowBefore(t[mid], r) THEN LowerBound(t, r, mid + 1, hi)
            ELSE LowerBound(t, r, lo, mid - 1)

RECURSIVE Merge(_, _)
Merge(s, t) ==
    IF s = << >> THEN t
    ELSE IF t = << >> THEN s
    ELSE LET m == (Len(s) + 1) \div 2
             j == LowerBound(t, s[m], 1, Len(t)) - 1
         IN Merge(SubSeq(s, 1, m - 1), SubSeq(t, 1, j)) \o << s[m] >>
              \o Merge(SubSeq(s, m + 1, Len(s)), SubSeq(t, j + 1, Len(t)))

RECURSIVE MergeSort(_)
MergeSort(s) ==
    IF Len(s) <= 1 THEN s
    ELSE LET h == Len(s) \div 2
         IN Merge(MergeSort(SubSeq(s, 1, h)), MergeSort(SubSeq(s, h + 1, Len(s))))

IsSorted(s) == \A i \in 1..(Len(s) - 1) : ~RowBefore(s[i + 1], s[i])

\* sort_values: a frame already in order is returned as it is
sort_values(s) == IF IsSorted(s) THEN s ELSE MergeSort(s)

\* the weekend filter keeping every row
KeepWeekend(r) == TRUE

\* df[~df['date'].dt.weekday.isin([5, 6])]: the weekday of NaT is NaN, which
\* is neither 5 nor 6
NotWeekend(r) == r.date = NaT \/ Weekday(r.date) \notin {5, 6}

\* the scheme names of the databases
SchemeNames ==
    { "ABC Direct Growth", "ABC Regular Growth", "ABC Growth Direct Plan",
      "ABC Direct IDCW", "XYZ Scheme (Direct)", "XYZ Liquid Fund" }

\* MatchesExcluded, tabulated by name
ExcludedName == [name \in SchemeNames |-> MatchesExcluded(name)]

\* the mask without str.lower(): the keywords sought in the name as it is
ExcludedNameCaseSensitive ==
    [name \in SchemeNames |->
        \E k \in 1..Len(exclude_keywords) : Contains(name, exclude_keywords[k])]

NotExcludedCaseSensitive(r) == ~ExcludedNameCaseSensitive[r.scheme_name]

\* normalize_name and get_priority, tabulated by name
NormalizedName == [name \in SchemeNames |-> normalize_name(name)]

Priority == [name \in SchemeNames |-> get_priority(name)]

\* mask = ~df['scheme_name'].str.lower().str.contains(...)
NotExcluded(r) == ~ExcludedName[r.scheme_name]

\* the frame returned when pd.to_datetime does not raise
get_trading_days_data(d) ==
    sort_values(SelectSeq(SelectSeq(to_datetime(QueryResult(d)), NotWeekend),
                          NotExcluded))

----------------------------------------------------------------------------
(* calculate_200_dma *)

\* df.groupby('scheme_code'): the rows of one scheme, in frame order
Group(frame, code) ==
    LET InGroup(r) == r.scheme_code = code
    IN SelectSeq(frame, InGroup)

\* rolling mean with min_periods one less than the window
rolling_mean_min_periods(g, i) ==
    IF i < Window - 1 THEN NaN
    ELSE [num |-> SumRange([j \in 1..Len(g) |-> g[j].nav],
                           IF i < Window THEN 1 ELSE i - Window + 1, i),
          den |-> IF i < Window THEN i ELSE Window]

\* x.rolling(window=200, min_periods=200).mean() at position i of a group:
\* NaN until 200 observations are in the window
rolling_mean(g, i) ==
    IF i < Window THEN NaN
    ELSE [num |-> SumRange([j \in 1..Len(g) |-> g[j].nav], i - Window + 1, i),
          den |-> Window]

\* pct_change with a change from a zero NAV left undefined
pct_change_from_zero_nan(g, i) ==
    IF i = 1 \/ g[i - 1].nav = 0 THEN NaN
    ELSE [num |-> g[i].nav - g[i - 1].nav, den |-> g[i - 1].nav]

\* groupby('scheme_code')['nav'].pct_change() at position i of a group
pct_change(g, i) ==
    IF i = 1 THEN NaN
    ELSE [num |-> g[i].nav - g[i - 1].nav, den |-> g[i - 1].nav]

\* Series.abs()
FracAbs(q) == [num |-> Abs(q.num), den |-> Abs(q.den)]

\* the larger of two floats, NaN being skipped
FracMax(p, q) ==
    IF IsNaN(p) THEN q
    ELSE IF IsNaN(q) THEN p
    ELSE IF FracLess(p, q) THEN q ELSE p

\* the maximum of |pct_change| over positions lo..hi of a group; NaN if
\* every value there is NaN
RECURSIVE MaxAbsChange(_, _, _)
MaxAbsChange(g, lo, hi) ==
    IF lo > hi THEN NaN
    ELSE IF lo = hi THEN FracAbs(pct_change(g, lo))
    ELSE LET mid == (lo + hi) \div 2
         IN FracMax(MaxAbsChange(g, lo, mid), MaxAbsChange(g, mid + 1, hi))

\* has_jump over the whole history up to position i
has_jump_whole_history(g, i) ==
    FracLess([num |-> JumpNum, den |-> JumpDen], MaxAbsChange(g, 1, i))

\* x.abs().rolling(window=200, min_periods=1).max() > 0.1 at position i
has_jump(g, i) ==
    LET lo == IF i - Window + 1 < 1 THEN 1 ELSE i - Window + 1
    IN FracLess([num |-> JumpNum, den |-> JumpDen], MaxAbsChange(g, lo, i))

\* the row at position i of a group with the columns dma_200, pct_change
\* and has_jump
WithColumns(g, i) ==
    [scheme_code |-> g[i].scheme_code,
     date |-> g[i].date,
     nav |-> g[i].nav,
     scheme_name |-> g[i].scheme_name,
     dma_200 |-> rolling_mean(g, i),
     pct_change |-> pct_change(g, i),
     has_jump |-> has_jump(g, i)]

\* df.dropna(subset=['dma_200']) on a group: the rows whose dma_200 is not
\* NaN, with their columns (of a row dropped here no other column is read)
DropNaDma(g) ==
    LET HasDma(i) == ~IsNaN(rolling_mean(g, i))
        kept == SelectSeq([i \in 1..Len(g) |-> i], HasDma)
    IN [k \in 1..Len(kept) |-> WithColumns(g, kept[k])]

\* latest_per_scheme = df.groupby('scheme_code').tail(1);
\* jumpy_schemes = the scheme_code of those rows whose has_jump is set
IsJumpy(g) == g # << >> /\ g[Len(g)].has_jump

\* calculate_200_dma on the plan of the highest priority of each fund only:
\* the duplicates dropped before the checks
calculate_200_dma_of_best_plans(frame) ==
    LET Name(code) == Group(frame, code)[1].scheme_name
        Outranked(code) ==
            \E other \in 1..3 :
               /\ Group(frame, other) # << >>
               /\ NormalizedName[Name(other)] = NormalizedName[Name(code)]
               /\ Priority[Name(other)] > Priority[Name(code)]
        Kept(code) ==
            LET g == DropNaDma(Group(frame, code))
            IN IF Group(frame, code) = << >> THEN << >>
               ELSE IF Outranked(code) \/ IsJumpy(g) THEN << >> ELSE g
    IN Kept(1) \o Kept(2) \o Kept(3)

\* the frame is in scheme_code order (sort_values), so that the groups,
\* taken by ascending scheme_code, are the frame
calculate_200_dma(frame) ==
    LET Kept(code) ==
            LET g == DropNaDma(Group(frame, code))
            IN IF IsJumpy(g) THEN << >> ELSE g
    IN Kept(1) \o Kept(2) \o Kept(3)

----------------------------------------------------------------------------
(* get_latest_nav_per_scheme *)

\* df.groupby('scheme_code')['date'].idxmax(): the first row of the group
\* that carries the group's largest date, NaT skipped (skipna); the groups
\* of the databases hold a row with a date
IdxMaxDate(g) ==
    CHOOSE k \in 1..Len(g) :
        /\ g[k].date # NaT
        /\ \A j \in 1..Len(g) : g[j].date <= g[k].date
        /\ \A j \in 1..(k - 1) : g[j].date < g[k].date

\* df.loc[df.groupby('scheme_code')['date'].idxmax()]: one row per scheme
\* present, by ascending scheme_code
LatestRows(frame) ==
    LET Latest(code) ==
            LET g == Group(frame, code)
            IN IF g = << >> THEN << >> ELSE << g[IdxMaxDate(g)] >>
    IN Latest(1) \o Latest(2) \o Latest(3)

\* latest_data['date'].max()
MaxDate(frame) == CHOOSE d \in { frame[k].date : k \in 1..Len(frame) } :
                      \A k \in 1..Len(frame) : frame[k].date <= d

\* get_latest_nav_per_scheme keeping only dates after the cutoff
get_latest_nav_after_cutoff(frame) ==
    LET latest == LatestRows(frame)
    IN IF latest = << >> THEN latest
       ELSE LET cutoff_date == MaxDate(latest) - StaleDays
                Recent(r) == r.date > cutoff_date
            IN SelectSeq(latest, Recent)

get_latest_nav_per_scheme(frame) ==
    LET latest == LatestRows(frame)
    IN IF latest = << >> THEN latest
       ELSE LET cutoff_date == MaxDate(latest) - StaleDays
                Recent(r) == r.date >= cutoff_date
            IN SelectSeq(latest, Recent)

----------------------------------------------------------------------------
(* deduplicate_schemes *)

\* the characters of scheme names, by ascending code point
CodePoints == " (),-.0123456789ABCDEFGHIJKLMNOPQRSTUVWXYZabcdefghijklmnopqrstuvwxyz"

CodePoint(c) == CHOOSE i \in 1..Len(CodePoints) : CharAt(CodePoints, i) = c

\* Python's s < t on strings
StrLess(s, t) ==
    \/ Len(s) < Len(t) /\ SubSeq(t, 1, Len(s)) = s
    \/ \E i \in 1..(IF Len(s) < Len(t) THEN Len(s) ELSE Len(t)) :
          /\ SubSeq(s, 1, i - 1) = SubSeq(t, 1, i - 1)
          /\ CodePoint(CharAt(s, i)) < CodePoint(CharAt(t, i))

\* a stable sort of a small frame: the row at output position p is the one
\* with p - 1 rows before it, rows that compare equal keeping their order
SortRows(frame, Before(_, _)) ==
    LET n == Len(frame)
        Rank(k) == Cardinality({ j \in 1..n :
                       \/ Before(frame[j], frame[k])
                       \/ ~Before(frame[k], frame[j]) /\ j < k })
    IN [p \in 1..n |-> frame[CHOOSE k \in 1..n : Rank(k) = p - 1]]

\* sort_values(['normalized_name', 'priority', 'nav'],
\*             ascending=[True, False, False])
NormalizedOf(r) == NormalizedName[r.scheme_name]

PriorityOf(r) == Priority[r.scheme_name]

\* DedupBefore with the NAV ascending
DedupBeforeNavAscending(r1, r2) ==
    \/ StrLess(NormalizedOf(r1), NormalizedOf(r2))
    \/ NormalizedOf(r1) = NormalizedOf(r2) /\ PriorityOf(r1) > PriorityOf(r2)
    \/ /\ NormalizedOf(r1) = NormalizedOf(r2)
       /\ PriorityOf(r1) = PriorityOf(r2)
       /\ r1.nav < r2.nav

DedupBefore(r1, r2) ==
    \/ StrLess(NormalizedOf(r1), NormalizedOf(r2))
    \/ NormalizedOf(r1) = NormalizedOf(r2) /\ PriorityOf(r1) > PriorityOf(r2)
    \/ /\ NormalizedOf(r1) = NormalizedOf(r2)
       /\ PriorityOf(r1) = PriorityOf(r2)
       /\ r1.nav > r2.nav

\* drop_duplicates dropping a row for the row before it only: of the rows of
\* one normalized_name every second one is kept
DropDuplicatesAlternate(frame) ==
    LET idx == [k \in 1..Len(frame) |-> k]
        Earlier(k) == { j \in 1..(k - 1) :
                          NormalizedOf(frame[j]) = NormalizedOf(frame[k]) }
        Alternate(k) == Cardinality(Earlier(k)) % 2 = 0
        kept == SelectSeq(idx, Alternate)
    IN [p \in 1..Len(kept) |-> frame[kept[p]]]

\* drop_duplicates(subset=['normalized_name'], keep='first')
DropDuplicates(frame) ==
    LET idx == [k \in 1..Len(frame) |-> k]
        First(k) == \A j \in 1..(k - 1) :
                       NormalizedOf(frame[j]) # NormalizedOf(frame[k])
        kept == SelectSeq(idx, First)
    IN [p \in 1..Len(kept) |-> frame[kept[p]]]

\* deduplicate_schemes keeping every row
deduplicate_nothing(frame) == frame

deduplicate_schemes(frame) ==
    IF frame = << >> THEN frame
    ELSE DropDuplicates(SortRows(frame, DedupBefore))

----------------------------------------------------------------------------
(* classify_funds *)

\* (nav - dma_200) / dma_200 * 100, with dma_200 = num / den:
\* (nav * den - num) * 100 / num
dma_diff_pct(r) ==
    [num |-> (r.nav * r.dma_200.den - r.dma_200.num) * 100,
     den |-> r.dma_200.num]

WithDiffPct(frame) ==
    [k \in 1..Len(frame) |->
        [scheme_code |-> frame[k].scheme_code,
         date |-> frame[k].date,
         nav |-> frame[k].nav,
         scheme_name |-> frame[k].scheme_name,
         dma_200 |-> frame[k].dma_200,
         pct_change |-> frame[k].pct_change,
         has_jump |-> frame[k].has_jump,
         dma_diff_pct |-> dma_diff_pct(frame[k])]]

\* NavAboveDma with >= in place of >
NavNotBelowDma(r) == ~FracLess(IntFrac(r.nav), r.dma_200)

\* latest_data['nav'] > latest_data['dma_200']
NavAboveDma(r) == FracLess(r.dma_200, IntFrac(r.nav))

\* latest_data['nav'] < latest_data['dma_200']
NavBelowDma(r) == FracLess(IntFrac(r.nav), r.dma_200)

\* sort_values('dma_diff_pct', ascending=False)
DiffDescending(r1, r2) == FracLess(r2.dma_diff_pct, r1.dma_diff_pct)

\* sort_values('dma_diff_pct', ascending=True)
DiffAscending(r1, r2) == FracLess(r1.dma_diff_pct, r2.dma_diff_pct)

\* funds_above_dma sorted with ascending=True
classify_above_ascending(frame) ==
    SortRows(SelectSeq(WithDiffPct(frame), NavAboveDma), DiffAscending)

\* rows of equal dma_diff_pct are left in frame order
classify_above(frame) ==
    SortRows(SelectSeq(WithDiffPct(frame), NavAboveDma), DiffDescending)

classify_below(frame) ==
    SortRows(SelectSeq(WithDiffPct(frame), NavBelowDma), DiffAscending)

----------------------------------------------------------------------------
(* generate_summary_stats, format_table_for_markdown, the JSON summary *)

\* count / total * 100, 0 when total is 0
Percentage(count, total) ==
    IF total > 0 THEN [num |-> count * 100, den |-> total] ELSE IntFrac(0)

\* the rows of a table: head(max_rows) of the frame, the columns displayed
MaxRows == 50

format_table_for_markdown(frame) ==
    [k \in 1..(IF Len(frame) < MaxRows THEN Len(frame) ELSE MaxRows) |->
        [scheme_code |-> frame[k].scheme_code,
         scheme_name |-> frame[k].scheme_name,
         nav |-> frame[k].nav,
         dma_200 |-> frame[k].dma_200,
         dma_diff_pct |-> frame[k].dma_diff_pct]]

\* the statistics with the classified funds as the total
generate_summary_stats_of_classified(above, below, total) ==
    [total_schemes_analyzed |-> Len(above) + Len(below),
     funds_above_dma |-> Len(above),
     funds_below_dma |-> Len(below),
     percentage_above |-> Percentage(Len(above), Len(above) + Len(below)),
     percentage_below |-> Percentage(Len(below), Len(above) + Len(below))]

generate_summary_stats(above, below, total) ==
    [total_schemes_analyzed |-> total,
     funds_above_dma |-> Len(above),
     funds_below_dma |-> Len(below),
     percentage_above |-> Percentage(Len(above), total),
     percentage_below |-> Percentage(Len(below), total)]

----------------------------------------------------------------------------
(* main *)

NoFrame == << >>

\* a file that does not exist
NoFile == [exists |-> FALSE]

Init ==
    /\ db = << NoRows("ABC Direct Growth"), NoRows("ABC Regular Growth"),
               NoRows("XYZ Scheme (Direct)") >>
    /\ pc = "ingest"
    /\ df = NoFrame
    /\ latest_data = NoFrame
    /\ funds_above_dma = NoFrame
    /\ funds_below_dma = NoFrame
    /\ dma_analysis_md = NoFile
    /\ dma_summary_json = NoFile
    /\ exit_status = "running"

\* the ingestion collaborator fills funds.db before the run
Ingest ==
    /\ pc = "ingest"
    /\ db' \in Databases
    /\ pc' = "start"
    /\ UNCHANGED <<df, latest_data, funds_above_dma, funds_below_dma,
                   dma_analysis_md, dma_summary_json, exit_status>>

\* df = get_trading_days_data(conn), pd.to_datetime raising: main's
\* except Exception prints the error and calls sys.exit(1)
MainLoadError ==
    /\ pc = "start"
    /\ ToDatetimeRaises(QueryResult(db))
    /\ pc' = "exit"
    /\ exit_status' = "1"
    /\ UNCHANGED <<db, df, latest_data, funds_above_dma, funds_below_dma,
                   dma_analysis_md, dma_summary_json>>

\* df = get_trading_days_data(conn)
MainLoad ==
    /\ pc = "start"
    /\ ~ToDatetimeRaises(QueryResult(db))
    /\ df' = get_trading_days_data(db)
    /\ pc' = "loaded"
    /\ UNCHANGED <<db, latest_data, funds_above_dma, funds_below_dma,
                   dma_analysis_md, dma_summary_json, exit_status>>

\* an empty frame ending the run with status 0
MainExitEmptyWithSuccess ==
    /\ pc = "loaded"
    /\ df = << >>
    /\ pc' = "exit"
    /\ exit_status' = "0"
    /\ UNCHANGED <<db, df, latest_data, funds_above_dma, funds_below_dma,
                   dma_analysis_md, dma_summary_json>>

\* if df.empty: print("No NAV data found in database."); sys.exit(1)
\* SystemExit is no Exception: nothing is written, the status is 1
MainExitEmpty ==
    /\ pc = "loaded"
    /\ df = << >>
    /\ pc' = "exit"
    /\ exit_status' = "1"
    /\ UNCHANGED <<db, df, latest_data, funds_above_dma, funds_below_dma,
                   dma_analysis_md, dma_summary_json>>

\* df_with_dma = calculate_200_dma(df)
MainCalculateDma ==
    /\ pc = "loaded"
    /\ df # << >>
    /\ df' = calculate_200_dma(df)
    /\ pc' = "dma"
    /\ UNCHANGED <<db, latest_data, funds_above_dma, funds_below_dma,
                   dma_analysis_md, dma_summary_json, exit_status>>

\* latest_data = get_latest_nav_per_scheme(df_with_dma)
MainLatest ==
    /\ pc = "dma"
    /\ latest_data' = get_latest_nav_per_scheme(df)
    /\ pc' = "latest"
    /\ UNCHANGED <<db, df, funds_above_dma, funds_below_dma,
                   dma_analysis_md, dma_summary_json, exit_status>>

\* latest_data = deduplicate_schemes(latest_data)
MainDeduplicate ==
    /\ pc = "latest"
    /\ latest_data' = deduplicate_schemes(latest_data)
    /\ pc' = "deduplicated"
    /\ UNCHANGED <<db, df, funds_above_dma, funds_below_dma,
                   dma_analysis_md, dma_summary_json, exit_status>>

\* funds_above_dma, funds_below_dma = classify_funds(latest_data);
\* classify_funds adds the column dma_diff_pct to latest_data in place
MainClassify ==
    /\ pc = "deduplicated"
    /\ funds_above_dma' = classify_above(latest_data)
    /\ funds_below_dma' = classify_below(latest_data)
    /\ latest_data' = WithDiffPct(latest_data)
    /\ pc' = "classified"
    /\ UNCHANGED <<db, df, dma_analysis_md, dma_summary_json, exit_status>>

\* the report written only where no dma_analysis.md exists (mode "x")
MainWriteReportIfAbsent ==
    /\ pc = "classified"
    /\ dma_analysis_md' =
          IF dma_analysis_md # NoFile THEN dma_analysis_md
          ELSE [summary |-> generate_summary_stats(funds_above_dma, funds_below_dma,
                                                   Len(latest_data)),
                above_table |-> format_table_for_markdown(funds_above_dma),
                below_table |-> format_table_for_markdown(funds_below_dma)]
    /\ pc' = "report"
    /\ UNCHANGED <<db, df, latest_data, funds_above_dma, funds_below_dma,
                   dma_summary_json, exit_status>>

\* with open("dma_analysis.md", "w") as f: f.write(report)
MainWriteReport ==
    /\ pc = "classified"
    /\ dma_analysis_md' =
          [summary |-> generate_summary_stats(funds_above_dma, funds_below_dma,
                                              Len(latest_data)),
           above_table |-> format_table_for_markdown(funds_above_dma),
           below_table |-> format_table_for_markdown(funds_below_dma)]
    /\ pc' = "report"
    /\ UNCHANGED <<db, df, latest_data, funds_above_dma, funds_below_dma,
                   dma_summary_json, exit_status>>

\* with open("dma_summary.json", "w") as f: json.dump(summary_json, f);
\* main returns, the status is 0
MainWriteSummary ==
    /\ pc = "report"
    /\ dma_summary_json' =
          generate_summary_stats(funds_above_dma, funds_below_dma, Len(latest_data))
    /\ pc' = "exit"
    /\ exit_status' = "0"
    /\ UNCHANGED <<db, df, latest_data, funds_above_dma, funds_below_dma,
                   dma_analysis_md>>

Next ==
    \/ Ingest
    \/ MainLoad
    \/ MainExitEmpty
    \/ MainCalculateDma
    \/ MainLatest
    \/ MainDeduplicate
    \/ MainClassify
    \/ MainWriteReport
    \/ MainWriteSummary

Spec == Init /\ [][Next]_vars

----------------------------------------------------------------------------
(* Runs of main one after another on the same working directory: the files *)
(* of a run are there when the next run starts.  The databases are few,    *)
(* and some hold a row without a date.                                     *)

\* scheme 1: 200 observations, or 201 of which the first is a spike, the
\* latest below, on or above the ordinary NAV, with or without an undated row
RunSubjects ==
    { NoRows("ABC Direct Growth") } \cup
    { p \in [scheme_name : {"ABC Direct Growth"},
             n : {Window, Window + 1},
             last : {LastFriday},
             base : {20},
             spike_back : {0, Window},
             spike_nav : {0, 30},
             last_nav : {19, 20, 21},
             weekends : {FALSE},
             undated : {"none", "missing", "malformed"}] :
        /\ (p.n = Window) = (p.spike_back = 0)
        /\ (p.spike_back = 0) = (p.spike_nav = 0) }

\* scheme 2: the same fund under another plan
RunPeers2 ==
    { NoRows("ABC Regular Growth") } \cup
    [scheme_name : {"ABC Regular Growth"},
     n : {Window}, last : {LastFriday},
     base : {20}, spike_back : {0}, spike_nav : {0}, last_nav : {21},
     weekends : {FALSE}, undated : {"none"}]

\* scheme 3: a fund of an excluded category
RunPeers3 ==
    { NoRows("XYZ Liquid Fund") } \cup
    [scheme_name : {"XYZ Liquid Fund"},
     n : {Window}, last : {LastFriday},
     base : {20}, spike_back : {0}, spike_nav : {0}, last_nav : {21},
     weekends : {FALSE}, undated : {"none", "malformed"}]

RunDatabases ==
    { <<p1, p2, p3>> : p1 \in RunSubjects, p2 \in RunPeers2, p3 \in RunPeers3 }

\* the ingestion collaborator fills funds.db before a run
IngestRun ==
    /\ pc = "ingest"
    /\ db' \in RunDatabases
    /\ pc' = "start"
    /\ UNCHANGED <<df, latest_data, funds_above_dma, funds_below_dma,
                   dma_analysis_md, dma_summary_json, exit_status>>

\* the process has ended; the next one starts with the files as they are
NextRun ==
    /\ pc = "exit"
    /\ pc' = "ingest"
    /\ df' = NoFrame
    /\ latest_data' = NoFrame
    /\ funds_above_dma' = NoFrame
    /\ funds_below_dma' = NoFrame
    /\ exit_status' = "running"
    /\ UNCHANGED <<db, dma_analysis_md, dma_summary_json>>

NextRuns ==
    \/ IngestRun
    \/ MainLoadError
    \/ MainLoad
    \/ MainExitEmpty
    \/ MainCalculateDma
    \/ MainLatest
    \/ MainDeduplicate
    \/ MainClassify
    \/ MainWriteReport
    \/ MainWriteSummary
    \/ NextRun

SpecRuns == Init /\ [][NextRuns]_vars

----------------------------------------------------------------------------
(* deduplicate_schemes and classify_funds called on a frame of snapshots:  *)
(* one row per scheme_code, each with a moving average.                    *)

\* how many snapshots a frame may hold
MaxSnapshots == 3

\* a scheme name, a NAV and the sum of the 200 NAVs of the NAV's window: two
\* plans of one fund at prices below, on and above their moving average,
\* and another fund
SnapshotKinds ==
    { << "ABC Direct Growth", 9, 2000 >>,
      << "ABC Direct Growth", 10, 2000 >>,
      << "ABC Direct Growth", 11, 2000 >>,
      << "ABC Regular Growth", 11, 2000 >>,
      << "ABC Regular Growth", 11, 1800 >>,
      << "ABC Direct IDCW", 10, 2200 >>,
      << "XYZ Scheme (Direct)", 11, 1800 >>,
      << "XYZ Scheme (Direct)", 10, 2200 >> }

Snapshot(code, kind) ==
    [scheme_code |-> code,
     date |-> TradingDate(LastFriday),
     nav |-> kind[2],
     scheme_name |-> kind[1],
     dma_200 |-> [num |-> kind[3], den |-> Window],
     pct_change |-> [num |-> 0, den |-> kind[2]],
     has_jump |-> FALSE]

SnapshotFrames ==
    UNION { { [k \in 1..n |-> Snapshot(k, kinds[k])] : kinds \in [1..n -> SnapshotKinds] } :
            n \in 0..MaxSnapshots }

InitFunctions ==
    /\ db = << NoRows("ABC Direct Growth"), NoRows("ABC Regular Growth"),
               NoRows("XYZ Scheme (Direct)") >>
    /\ pc = "call"
    /\ df \in SnapshotFrames
    /\ latest_data = NoFrame
    /\ funds_above_dma = NoFrame
    /\ funds_below_dma = NoFrame
    /\ dma_analysis_md = NoFile
    /\ dma_summary_json = NoFile
    /\ exit_status = "running"

\* latest_data = deduplicate_schemes(df)
CallDeduplicate ==
    /\ pc = "call"
    /\ latest_data' = deduplicate_schemes(df)
    /\ pc' = "deduplicate_schemes"
    /\ UNCHANGED <<db, df, funds_above_dma, funds_below_dma,
                   dma_analysis_md, dma_summary_json, exit_status>>

\* funds_above_dma, funds_below_dma = classify_funds(df), latest_data being
\* the frame with the column classify_funds adds
CallClassify ==
    /\ pc = "call"
    /\ funds_above_dma' = classify_above(df)
    /\ funds_below_dma' = classify_below(df)
    /\ latest_data' = WithDiffPct(df)
    /\ pc' = "classify_funds"
    /\ UNCHANGED <<db, df, dma_analysis_md, dma_summary_json, exit_status>>

\* deduplicate_schemes(latest_data), latest_data being the result of
\* deduplicate_schemes(df)
CallDeduplicateAgain ==
    /\ pc = "deduplicate_schemes"
    /\ latest_data' = deduplicate_schemes(latest_data)
    /\ pc' = "deduplicate_schemes_again"
    /\ UNCHANGED <<db, df, funds_above_dma, funds_below_dma,
                   dma_analysis_md, dma_summary_json, exit_status>>

NextFunctions == CallDeduplicate \/ CallDeduplicateAgain \/ CallClassify

SpecFunctions == InitFunctions /\ [][NextFunctions]_vars

----------------------------------------------------------------------------
(* What the claims speak of, read off the database itself: a scheme's      *)
(* ScopedSeries is its weekday observations, none if its name carries an   *)
(* excluded keyword.                                                        *)

ScopedLen(code) ==
    IF ExcludedName[db[code].scheme_name] THEN 0 ELSE db[code].n

ScopedNav(code, i) == NavAt(db[code], i)

ScopedDate(code, i) == TradingDate(db[code].last - db[code].n + i)

\* the position in its ScopedSeries of a scheme's observation of a date
ScopedPosition(code, date) == TradingIndex(date) - (db[code].last - db[code].n)

\* |changeRatio| at position i exceeds 10 %: |nav[i] - nav[i-1]| / |nav[i-1]|
\* > 1/10; a change from a zero NAV to another NAV is infinite
ChangeExceeds(code, i) ==
    10 * Abs(ScopedNav(code, i) - ScopedNav(code, i - 1)) > Abs(ScopedNav(code, i - 1))

\* a change above 10 % among the 200 positions ending at the latest one
JumpInFinalWindow(code) ==
    \E i \in 2..ScopedLen(code) :
        i > ScopedLen(code) - Window /\ ChangeExceeds(code, i)

\* a change above 10 % before those positions
JumpBeforeFinalWindow(code) ==
    \E i \in 2..ScopedLen(code) :
        i <= ScopedLen(code) - Window /\ ChangeExceeds(code, i)

Codes(frame) == { frame[k].scheme_code : k \in 1..Len(frame) }

\* main is past calculate_200_dma
AfterDma == pc \in {"dma", "latest", "deduplicated", "classified", "report"}
              \/ (pc = "exit" /\ exit_status = "0")

\* main is past classify_funds
AfterClassify == pc \in {"classified", "report"} \/ (pc = "exit" /\ exit_status = "0")

Classified == Codes(funds_above_dma) \cup Codes(funds_below_dma)

----------------------------------------------------------------------------
----------------------------------------------------------------------------
(* C3: among the schemes that pass the 200-observation and jump checks, a  *)
(* scheme is in the result of get_latest_nav_per_scheme, with its latest   *)
(* observation, if and only if that observation is dated no more than 200  *)
(* days before the latest date of those schemes; a scheme that failed a    *)
(* check is not in the result and does not move that date.                 *)
Passing(code) == ScopedLen(code) >= Window /\ ~JumpInFinalWindow(code)

LatestDate(code) == ScopedDate(code, ScopedLen(code))

\* days from a passing scheme's latest observation to the latest of them all
DaysBehind(code) ==
    LET dates == { LatestDate(c) : c \in { c \in SchemeCodes : Passing(c) } }
    IN (CHOOSE d \in dates : \A e \in dates : e <= d) - LatestDate(code)

C3_RecencyAnchor ==
    pc = "latest" =>
       /\ \A code \in SchemeCodes :
             code \in Codes(latest_data) <=> (Passing(code) /\ DaysBehind(code) <= 200)
       /\ \A k \in 1..Len(latest_data) :
             latest_data[k].date = LatestDate(latest_data[k].scheme_code)

\* a scheme exactly 200 days behind survives while a scheme that failed a
\* check carries a later date
C3_Witness ==
    /\ pc = "latest"
    /\ \E code \in SchemeCodes :
          /\ Passing(code)
          /\ DaysBehind(code) = 200
          /\ code \in Codes(latest_data)
          /\ \E other \in SchemeCodes :
                /\ ScopedLen(other) > 0
                /\ ~Passing(other)
                /\ LatestDate(other) - LatestDate(code) > 200

----------------------------------------------------------------------------
(* C4: after classify_funds no scheme_code and no NormalizedIdentity       *)
(* occurs twice in funds_above_dma and funds_below_dma taken together.     *)
C4_NoDuplicateInUnion ==
    AfterClassify =>
       LET union == funds_above_dma \o funds_below_dma
       IN \A j, k \in 1..Len(union) :
             j # k => /\ union[j].scheme_code # union[k].scheme_code
                      /\ NormalizedOf(union[j]) # NormalizedOf(union[k])

\* two schemes of one NormalizedIdentity passed every check, neither with
\* its NAV on its moving average, and one of them has been classified
C4_Witness ==
    /\ AfterClassify
    /\ \E c1, c2 \in SchemeCodes :
          /\ c1 # c2
          /\ Passing(c1) /\ DaysBehind(c1) <= 200
          /\ Passing(c2) /\ DaysBehind(c2) <= 200
          /\ NormalizedName[db[c1].scheme_name] = NormalizedName[db[c2].scheme_name]
          /\ ScopedNav(c1, ScopedLen(c1)) # ScopedNav(c1, ScopedLen(c1) - 1)
          /\ ScopedNav(c2, ScopedLen(c2)) # ScopedNav(c2, ScopedLen(c2) - 1)
          /\ c1 \in Classified

----------------------------------------------------------------------------
(* C7: every scheme in funds_above_dma or funds_below_dma has at least 200 *)
(* weekday observations up to and including the classified one, which is a *)
(* weekday observation itself.                                             *)
C7_WindowComplete ==
    AfterClassify =>
       LET union == funds_above_dma \o funds_below_dma
       IN \A k \in 1..Len(union) :
             /\ Weekday(union[k].date) < 5
             /\ ScopedLen(union[k].scheme_code) >= Window
             /\ ScopedPosition(union[k].scheme_code, union[k].date) >= Window

\* a scheme reporting on weekends too, with exactly 200 weekday
\* observations, has been classified
C7_Witness ==
    /\ AfterClassify
    /\ \E code \in Classified :
          db[code].weekends /\ ScopedLen(code) = Window

----------------------------------------------------------------------------
(* C8: in the result of calculate_200_dma a scheme has no row at the       *)
(* positions before 200 of its ScopedSeries (the moving average is absent  *)
(* there) and one row at each position from 200 on, whose dma_200 is the   *)
(* mean of that scheme's NAVs at the 200 positions ending there.           *)
ScopedSum(code, lo, hi) ==
    SumRange([j \in 1..ScopedLen(code) |-> ScopedNav(code, j)], lo, hi)

C8_MovingAverage ==
    pc = "dma" =>
       /\ \A k \in 1..Len(df) :
             LET code == df[k].scheme_code
                 i == ScopedPosition(code, df[k].date)
             IN /\ Weekday(df[k].date) < 5
                /\ i >= Window
                /\ i <= ScopedLen(code)
                /\ df[k].dma_200.den > 0
                /\ df[k].dma_200.num * Window
                     = ScopedSum(code, i - Window + 1, i) * df[k].dma_200.den
       /\ \A code \in Codes(df) :
             \A i \in Window..ScopedLen(code) :
                Cardinality({ k \in 1..Len(df) :
                                 /\ df[k].scheme_code = code
                                 /\ df[k].date = ScopedDate(code, i) }) = 1

\* two schemes have moving averages, one of them at positions whose windows
\* differ in a NAV
C8_Witness ==
    /\ pc = "dma"
    /\ Cardinality(Codes(df)) >= 2
    /\ \E code \in Codes(df) :
          /\ ScopedLen(code) > Window
          /\ ScopedSum(code, 1, Window)
               # ScopedSum(code, ScopedLen(code) - Window + 1, ScopedLen(code))

----------------------------------------------------------------------------
ZeroBesideNonZero(code) ==
    \E i \in 2..ScopedLen(code) :
        /\ i > ScopedLen(code) - Window
        /\ (ScopedNav(code, i) = 0) # (ScopedNav(code, i - 1) = 0)

----------------------------------------------------------------------------
(* C10, as claimed: when no observation is left after the weekend and      *)
(* category filters, the run ends without a failure status and reports     *)
(* zero schemes and empty sequences.                                       *)
NothingScoped == \A code \in SchemeCodes : ScopedLen(code) = 0

C10_EmptyIsNotAnError ==
    (pc = "exit" /\ NothingScoped) =>
       /\ exit_status = "0"
       /\ dma_summary_json # NoFile
       /\ dma_summary_json.total_schemes_analyzed = 0
       /\ funds_above_dma = << >>
       /\ funds_below_dma = << >>

(* C10, amended: when no observation is left after the weekend and         *)
(* category filters, the run exits with status 1 right after loading:      *)
(* nothing is classified and neither report file is written.               *)
C10_EmptyExitsWithFailure ==
    (pc = "exit" /\ NothingScoped) =>
       /\ exit_status = "1"
       /\ df = << >>
       /\ latest_data = NoFrame
       /\ funds_above_dma = NoFrame
       /\ funds_below_dma = NoFrame
       /\ dma_analysis_md = NoFile
       /\ dma_summary_json = NoFile

\* the database has rows, all of a scheme of an excluded category, and the
\* run has ended
C10_Witness ==
    /\ pc = "exit"
    /\ NothingScoped
    /\ \E code \in SchemeCodes : db[code].n > 0

----------------------------------------------------------------------------
(* C2: deduplicate_schemes keeps, of every NormalizedIdentity of its       *)
(* input, exactly one snapshot; that snapshot has the highest priority of  *)
(* its group and the highest NAV among the group's members of that         *)
(* priority; nothing else is in the result.                                *)
Rows(frame) == { frame[k] : k \in 1..Len(frame) }

Identities(frame) == { NormalizedOf(r) : r \in Rows(frame) }

C2_OneBestPerIdentity ==
    pc = "deduplicate_schemes" =>
       /\ Rows(latest_data) \subseteq Rows(df)
       /\ Len(latest_data) = Cardinality(Identities(df))
       /\ Identities(latest_data) = Identities(df)
       /\ \A kept \in Rows(latest_data) :
             \A r \in Rows(df) :
                NormalizedOf(r) = NormalizedOf(kept) =>
                   \/ PriorityOf(r) < PriorityOf(kept)
                   \/ PriorityOf(r) = PriorityOf(kept) /\ r.nav <= kept.nav

\* a group of three snapshots, a lower NAV on the highest priority, two
\* members sharing that priority
C2_Witness ==
    /\ pc = "deduplicate_schemes"
    /\ \E a, b, c \in Rows(df) :
          /\ a.scheme_code # b.scheme_code
          /\ NormalizedOf(a) = NormalizedOf(b) /\ NormalizedOf(b) = NormalizedOf(c)
          /\ PriorityOf(a) = PriorityOf(b) /\ a.nav > b.nav
          /\ PriorityOf(c) < PriorityOf(a) /\ c.nav > a.nav
          /\ a \in Rows(latest_data)

----------------------------------------------------------------------------
(* C5: of every snapshot given to classify_funds exactly one holds: it is  *)
(* in funds_above_dma and its NAV is above its moving average, it is in    *)
(* funds_below_dma and its NAV is below, or its NAV equals the moving      *)
(* average and it is in neither; the two results hold nothing else.        *)
\* the snapshot of a classified row: the row without the column added
Unclassified(r) ==
    [scheme_code |-> r.scheme_code, date |-> r.date, nav |-> r.nav,
     scheme_name |-> r.scheme_name, dma_200 |-> r.dma_200,
     pct_change |-> r.pct_change, has_jump |-> r.has_jump]

Occurrences(frame, code) ==
    Cardinality({ k \in 1..Len(frame) : frame[k].scheme_code = code })

C5_Partition ==
    pc = "classify_funds" =>
       /\ \A r \in Rows(df) :
             LET above == Occurrences(funds_above_dma, r.scheme_code)
                 below == Occurrences(funds_below_dma, r.scheme_code)
                 mean200 == r.dma_200.num
             IN \/ above = 1 /\ below = 0 /\ r.nav * Window > mean200
                \/ above = 0 /\ below = 1 /\ r.nav * Window < mean200
                \/ above = 0 /\ below = 0 /\ r.nav * Window = mean200
       /\ \A r \in Rows(funds_above_dma) \cup Rows(funds_below_dma) :
             Unclassified(r) \in Rows(df)

\* snapshots above, below and on their moving average were classified
C5_Witness ==
    /\ pc = "classify_funds"
    /\ funds_above_dma # << >>
    /\ funds_below_dma # << >>
    /\ Len(funds_above_dma) + Len(funds_below_dma) < Len(df)

----------------------------------------------------------------------------
(* C6: funds_above_dma is in order of non-increasing deviationPct and      *)
(* funds_below_dma in order of non-decreasing deviationPct, deviationPct   *)
(* being (nav - movingAverage) / movingAverage * 100.                      *)
\* deviationPct of r1 is smaller than that of r2: with positive sums s1 and
\* s2 of the windows, (200 nav1 - s1) / s1 < (200 nav2 - s2) / s2
DeviationSmaller(r1, r2) ==
    (Window * r1.nav - r1.dma_200.num) * r2.dma_200.num
       < (Window * r2.nav - r2.dma_200.num) * r1.dma_200.num

C6_SortedByDeviation ==
    pc = "classify_funds" =>
       /\ \A k \in 1..(Len(funds_above_dma) - 1) :
             ~DeviationSmaller(funds_above_dma[k], funds_above_dma[k + 1])
       /\ \A k \in 1..(Len(funds_below_dma) - 1) :
             ~DeviationSmaller(funds_below_dma[k + 1], funds_below_dma[k])

\* three snapshots above their moving average, two of one deviationPct and
\* one of a larger, given in ascending order
C6_Witness ==
    /\ pc = "classify_funds"
    /\ Len(funds_above_dma) = 3
    /\ DeviationSmaller(df[1], df[3])
    /\ ~DeviationSmaller(df[1], df[2]) /\ ~DeviationSmaller(df[2], df[1])

----------------------------------------------------------------------------
(* C11: a row whose date is malformed or missing is dropped from the       *)
(* observation set and the run continues on the remaining rows; the row    *)
(* never contributes to a window, a changeRatio or a latest observation:   *)
(* the loaded frame holds dated rows only, a run with observations ends    *)
(* with status 0, and the jump flag is that of the dated observations.     *)
SomeUndated == \E code \in SchemeCodes : db[code].undated # "none"

C11_UndatedRowsDropped ==
    /\ pc = "loaded" =>
          /\ \A k \in 1..Len(df) : df[k].date # NaT
          /\ \A code \in SchemeCodes : Len(Group(df, code)) = ScopedLen(code)
    /\ (pc = "exit" /\ SomeUndated /\ ~NothingScoped) => exit_status = "0"
    /\ AfterClassify => \A code \in Classified : ~JumpInFinalWindow(code)

----------------------------------------------------------------------------
(* C12: when a snapshot given to deduplicate_schemes has "direct" in its   *)
(* name, the snapshot kept for its NormalizedIdentity has "direct" in its  *)
(* name, whatever the NAVs are.                                            *)
DirectNames == { "ABC Direct Growth", "ABC Direct IDCW", "XYZ Scheme (Direct)" }

C12_DirectBeatsRegular ==
    pc = "deduplicate_schemes" =>
       \A r \in Rows(df) :
          r.scheme_name \in DirectNames =>
             \E kept \in Rows(latest_data) :
                /\ NormalizedOf(kept) = NormalizedOf(r)
                /\ kept.scheme_name \in DirectNames

\* a Direct plan without "growth" in its name was kept over a Regular plan
\* of the same fund with a higher NAV
C12_Witness ==
    /\ pc = "deduplicate_schemes"
    /\ \E kept \in Rows(latest_data), r \in Rows(df) :
          /\ kept.scheme_name = "ABC Direct IDCW"
          /\ r.scheme_name = "ABC Regular Growth"
          /\ NormalizedOf(r) = NormalizedOf(kept)
          /\ r.nav > kept.nav

----------------------------------------------------------------------------
(* C13: deduplicate_schemes applied to its own result returns the same set *)
(* of snapshots, and no two snapshots of a result share a                  *)
(* NormalizedIdentity.                                                     *)
C13_DedupIdempotent ==
    /\ pc = "deduplicate_schemes" =>
          \A j, k \in 1..Len(latest_data) :
             NormalizedOf(latest_data[j]) = NormalizedOf(latest_data[k]) => j = k
    /\ pc = "deduplicate_schemes_again" =>
          /\ Rows(latest_data) = Rows(deduplicate_schemes(df))
          /\ Len(latest_data) = Len(deduplicate_schemes(df))

\* the second pass has run on the result of a pass that dropped two of three
\* snapshots, or one of three
C13_Witness ==
    /\ pc = "deduplicate_schemes_again"
    /\ Len(df) = MaxSnapshots
    /\ Len(latest_data) \in {1, 2}

----------------------------------------------------------------------------
(* C14: the frame get_trading_days_data returns holds the rows of the      *)
(* query result, each once, except the rows dated on a Saturday or Sunday  *)
(* and the rows of schemes whose name contains an excluded keyword in any  *)
(* case; the rows of a scheme are in ascending order of date, and a scheme *)
(* of an excluded category is in no later frame.                           *)
ExcludedCategoryNames == { "XYZ Liquid Fund" }

InScope(r) == r.date % 7 \notin {5, 6} /\ r.scheme_name \notin ExcludedCategoryNames

----------------------------------------------------------------------------
(* C15: the total a run reports, in the report and in the summary, is the  *)
(* number of snapshots after deduplication: one for each NormalizedIdentity *)
(* of the schemes that passed the 200-observation, jump and recency        *)
(* checks, those with nav = dma_200 included; the funds above and below    *)
(* are no more than the total and the two percentages sum to 100 at most.  *)
\* the schemes that pass the three checks: the latest date of a passing
\* scheme is no more than 200 days before the latest of them all
Survivors ==
    LET passing == { code \in SchemeCodes : Passing(code) }
    IN { code \in passing :
           \A other \in passing : LatestDate(other) - LatestDate(code) <= StaleDays }

SurvivingIdentities == { NormalizedName[db[code].scheme_name] : code \in Survivors }

OnAverage(frame) ==
    Cardinality({ k \in 1..Len(frame) :
                    frame[k].nav * frame[k].dma_200.den = frame[k].dma_200.num })

TotalIsSnapshots(stats) ==
    /\ stats.total_schemes_analyzed = Cardinality(SurvivingIdentities)
    /\ stats.total_schemes_analyzed = Len(latest_data)
    /\ stats.total_schemes_analyzed
          = stats.funds_above_dma + stats.funds_below_dma + OnAverage(latest_data)
    /\ stats.funds_above_dma = Len(funds_above_dma)
    /\ stats.funds_below_dma = Len(funds_below_dma)
    /\ stats.total_schemes_analyzed > 0 =>
          /\ stats.percentage_above.den = stats.total_schemes_analyzed
          /\ stats.percentage_below.den = stats.total_schemes_analyzed
          /\ stats.percentage_above.num + stats.percentage_below.num
                <= 100 * stats.total_schemes_analyzed
    /\ stats.total_schemes_analyzed = 0 =>
          /\ stats.percentage_above = IntFrac(0)
          /\ stats.percentage_below = IntFrac(0)

C15_TotalCountsSnapshots ==
    /\ pc = "report" => TotalIsSnapshots(dma_analysis_md.summary)
    /\ (pc = "exit" /\ exit_status = "0") =>
          /\ TotalIsSnapshots(dma_analysis_md.summary)
          /\ TotalIsSnapshots(dma_summary_json)

\* a run has reported two snapshots, one of them with nav = dma_200
C15_Witness ==
    /\ pc = "exit"
    /\ exit_status = "0"
    /\ dma_summary_json.total_schemes_analyzed = 2
    /\ dma_summary_json.funds_above_dma + dma_summary_json.funds_below_dma = 1

----------------------------------------------------------------------------
(* What a run on database d alone writes: the snapshots after              *)
(* deduplication, classified, and the statistics and tables of them.       *)
SnapshotsOf(d) ==
    deduplicate_schemes(get_latest_nav_per_scheme(
        calculate_200_dma(get_trading_days_data(d))))

StatsOf(d) ==
    LET snapshots == SnapshotsOf(d)
    IN generate_summary_stats(classify_above(snapshots), classify_below(snapshots),
                              Len(snapshots))

ReportOf(d) ==
    LET snapshots == SnapshotsOf(d)
    IN [summary |-> StatsOf(d),
        above_table |-> format_table_for_markdown(classify_above(snapshots)),
        below_table |-> format_table_for_markdown(classify_below(snapshots))]

Artifacts == << dma_analysis_md, dma_summary_json >>

----------------------------------------------------------------------------
(* C17: deduplicate_schemes is given the snapshots of the schemes that     *)
(* passed the 200-observation, jump and recency checks and of no other:    *)
(* every snapshot kept is of such a scheme, and every fund with such a     *)
(* scheme is kept, also when its plan of the highest priority failed a     *)
(* check.                                                                  *)
IdentityOf(code) == NormalizedName[db[code].scheme_name]

C17_DedupAfterChecks ==
    pc \in {"deduplicated", "classified", "report"} =>
       /\ Codes(latest_data) \subseteq Survivors
       /\ \A code \in Survivors :
             \E kept \in Codes(latest_data) : IdentityOf(kept) = IdentityOf(code)

\* the Direct Growth plan of a fund has 200 observations or more and a jump
\* in its final window; the Regular plan of the fund passed the checks and
\* is the snapshot kept
C17_Witness ==
    /\ pc = "deduplicated"
    /\ \E c1, c2 \in SchemeCodes :
          /\ ScopedLen(c1) >= Window
          /\ c1 \notin Survivors
          /\ c2 \in Survivors
          /\ IdentityOf(c1) = IdentityOf(c2)
          /\ Priority[db[c1].scheme_name] > Priority[db[c2].scheme_name]
          /\ c2 \in Codes(latest_data)

====
